---- MODULE Spec2Model ----
(***************************************************************************)
(* libicsneo-rs: the safe wrappers around the native libicsneo C API.      *)
(*                                                                         *)
(* The wrappers (crates/libicsneo-rs/src/icsneo.rs, src/safe.rs,           *)
(* src/lib.rs) are modelled step by step: every native call and every      *)
(* read of the last-error slot is one step of the running wrapper          *)
(* invocation, held in `frame`.  The native library itself is vendored     *)
(* outside the sources at hand; its part (the last-error slot and the      *)
(* device-handle lifecycle) is modelled from the specification's glossary  *)
(* and from what the repository's tests expect of it.                      *)
(***************************************************************************)
EXTENDS Integers, Sequences, FiniteSets, TLC

\* ---------------------------------------------------------------- bounds
\* Number of physical devices that may be attached.
MaxDevices == 2
\* Largest size a length-probe call reports (messages, events, characters).
MaxCount == 2

\* ------------------------------------------------------------- constants
\* The all-zero handle of NeoDevice::default() / NeoDevice::new().
DefaultDevice == 0

Devices == 1..MaxDevices
Handles == Devices \cup {DefaultDevice}

\* ---------------------------------------------------------- wrapper sets
\* "call, check return, map last-error": Ok on true, Err on false.
CheckWrappers ==
    {"open_device", "close_device", "go_online", "go_offline", "transmit",
     "transmit_messages", "set_polling_message_limit", "set_digital_io",
     "get_timestamp_resolution", "get_digital_io"}

\* is_open / is_online: the boolean answer is also the checked status.
QueryWrappers == {"is_open", "is_online"}

\* Wrappers that return the native result as it is.
DevicePassWrappers ==
    {"enable_message_polling", "disable_message_polling",
     "is_message_polling_enabled", "get_network_by_number", "get_baudrate",
     "set_baudrate", "get_fd_baudrate", "set_fd_baudrate", "set_write_blocks",
     "discard_all_device_events", "is_termination_supported_for",
     "can_termination_be_enabled_for", "is_termination_enabled_for",
     "set_termination_for"}

GlobalPassWrappers ==
    {"discard_all_events", "set_event_limit", "get_event_limit", "get_version",
     "free_unconnected_devices", "serial_string_to_num"}

PassWrappers == DevicePassWrappers \cup GlobalPassWrappers

\* Pass-through wrappers by the type of what they return.
BoolPass ==
    {"enable_message_polling", "disable_message_polling",
     "is_message_polling_enabled", "set_baudrate", "set_fd_baudrate",
     "is_termination_supported_for", "can_termination_be_enabled_for",
     "is_termination_enabled_for", "set_termination_for"}

VoidPass ==
    {"set_write_blocks", "discard_all_device_events", "discard_all_events",
     "set_event_limit", "free_unconnected_devices"}

\* Two-phase wrappers returning a String.
StringWrappers ==
    {"serial_num_to_string", "describe_device", "get_product_name",
     "get_product_name_for_type"}

\* Two-phase wrappers returning a Vec (other than find_all_devices).
VecWrappers ==
    {"get_messages", "get_events", "get_device_events", "get_supported_devices"}

TwoPhaseWrappers == StringWrappers \cup VecWrappers \cup {"find_all_devices"}

\* Wrappers that take no device argument.
NoDeviceWrappers ==
    GlobalPassWrappers \cup
    {"serial_num_to_string", "get_product_name_for_type", "get_events",
     "get_supported_devices", "find_all_devices", "get_last_error"}

\* Each of the three wrapper modules defines every wrapper.
Wrappers ==
    CheckWrappers \cup QueryWrappers \cup PassWrappers \cup StringWrappers
    \cup VecWrappers
    \cup {"find_all_devices", "is_valid_neodevice", "get_last_error",
          "get_polling_message_limit"}

\* crates/libicsneo-rs/src/icsneo.rs, src/safe.rs, src/lib.rs (mod icsneo).
Files == {"icsneo", "safe", "lib"}

\* src/lib.rs: the wrappers that read the slot after a failed call only to
\* drop what they read, and return CriticalError.
LibDiscarding ==
    {"get_timestamp_resolution", "get_digital_io", "set_digital_io",
     "get_events", "get_device_events", "get_supported_devices"}
    \cup StringWrappers

\* ---------------------------------------------------------------- values
\* The content of the last-error slot.  `stale` is a history flag: it is set
\* when a wrapper invocation starts while the event is still in the slot.
NoEvent == [code |-> "none", stale |-> FALSE]

Event(code) == [code |-> code, stale |-> FALSE]

MarkStale(e) == IF e = NoEvent THEN e ELSE [e EXCEPT !.stale = TRUE]

\* What a wrapper returns.  tag: "Ok", "ErrorOccurred", "CriticalError",
\* "NoDevicesFound", "DeviceInvalid" for a Result; "Some" / "None" for an
\* Option; "Plain" for a bare value; "none" while the wrapper runs.
\* b, n: the boolean / numeric payload (n is the length of a Vec or String);
\* ev: the event carried; devs: the handles in a Vec of devices.
Ret(tag, b, n, ev, devs) ==
    [tag |-> tag, b |-> b, n |-> n, ev |-> ev, devs |-> devs]

NoRet == Ret("none", FALSE, 0, NoEvent, {})

Ok(b, n) == Ret("Ok", b, n, NoEvent, {})

OkDevices(n, devs) == Ret("Ok", FALSE, n, NoEvent, devs)

ErrorOccurred(e) == Ret("ErrorOccurred", FALSE, 0, e, {})

CriticalError == Ret("CriticalError", FALSE, 0, NoEvent, {})

NoDevicesFound == Ret("NoDevicesFound", FALSE, 0, NoEvent, {})

DeviceInvalid == Ret("DeviceInvalid", FALSE, 0, NoEvent, {})

Plain(b, n) == Ret("Plain", b, n, NoEvent, {})

\* The wrapper has panicked: it returns nothing, the stack unwinds.
Panicked == Ret("Panic", FALSE, 0, NoEvent, {})

\* The &str arguments of serial_string_to_num, as sequences of bytes: "5"
\* and "A\0B", which has a NUL byte inside.
SerialStrings == {<<53>>, <<65, 0, 66>>}

\* CString::new(s): an error when s contains a NUL byte, else the bytes of s
\* with the terminating NUL appended.
CString_new(s) ==
    IF \E i \in 1..Len(s) : s[i] = 0
    THEN [ok |-> FALSE, bytes |-> <<>>]
    ELSE [ok |-> TRUE, bytes |-> Append(s, 0)]

\* What a native operation call answered: its status, the number it reported,
\* the device handles it wrote, whether the bytes it wrote are UTF-8.
CallResponse(ok, n, buf, utf8) ==
    [ok |-> ok, n |-> n, buf |-> buf, utf8 |-> utf8, ev |-> NoEvent]

\* What icsneo_getLastError answered: the event, or none.
ReadResponse(e) ==
    [ok |-> e # NoEvent, n |-> 0, buf |-> {}, utf8 |-> TRUE, ev |-> e]

\* The next position of a wrapper together with its result so far.
Step(pc, ret) == [pc |-> pc, ret |-> ret]

\* ----------------------------------------------------------------- state
VARIABLES
    api,     \* the wrapper module the calling program is built against
    slot,    \* the native library's last-error slot
    life,    \* native state of each device handle: none, found, open, online
    held,    \* the device handles the caller has received from find_all_devices
    frame,   \* the running wrapper invocation
    first,   \* no wrapper invocation has returned yet
    threads, \* the wrapper invocation each of two concurrent threads runs
    owner    \* the thread whose native call recorded the event in the slot

vars == <<api, slot, life, held, frame, first, threads, owner>>

\* What no wrapper called by the single caller changes.
outside == <<api, threads, owner>>

\* What no step of a wrapper changes.
fixed == <<outside, first>>

\* frame.log: the native calls and slot reads made so far, in order:
\*   "T" / "F" a native call that returned true / false, "V" a native call
\*   that returns no status, "R" a read of the last-error slot.
\* frame.after: the slot as the last native call left it.
\* frame.null1: the first call was made with a null buffer.
\* frame.reported: the size the first call reported; frame.cap: the size of
\* the buffer passed to the second call (-1: no second call); frame.buf: the
\* device handles the fill call of find_all_devices left in the buffer.
\* frame.resp: what the native library answered to each entry of frame.log.
\* frame.str: the string argument of serial_string_to_num.
IdleFrame ==
    [file |-> "none", fn |-> "none", pc |-> "idle", dev |-> DefaultDevice,
     str |-> <<>>,
     ok |-> FALSE, count |-> 0, reported |-> 0, cap |-> -1, null1 |-> FALSE,
     buf |-> {}, after |-> NoEvent, log |-> <<>>, resp |-> <<>>,
     ret |-> NoRet]

\* The two threads of the concurrent runs.
Threads == {"A", "B"}

\* own: the event the thread's own native call recorded; from: the thread
\* that recorded the event the thread's read took from the slot.
IdleThread ==
    [fn |-> "none", dev |-> DefaultDevice, pc |-> "idle", ok |-> FALSE,
     own |-> NoEvent, from |-> "none", ret |-> NoRet]

Init ==
    /\ api \in Files
    /\ slot = NoEvent
    /\ life = [d \in Devices |-> "none"]
    /\ held = {}
    /\ frame = IdleFrame
    /\ first = TRUE
    /\ threads = [t \in Threads |-> IdleThread]
    /\ owner = "none"

\* -------------------------------------------------- native library model
Valid(d) == d \in Devices /\ life[d] # "none"

Outcome(ok, n, s, l) == [ok |-> ok, n |-> n, slot |-> s, life |-> l]

InvalidOutcome(n) == {Outcome(FALSE, n, Event("InvalidNeoDevice"), life)}

\* A failing call records an event in the slot; the wrappers also provide for
\* a failure that leaves no event behind.
FailOutcomes(code) ==
    {Outcome(FALSE, 0, Event(code), life), Outcome(FALSE, 0, slot, life)}

icsneo_getLastError == [ev |-> slot, slot |-> NoEvent]

icsneo_isValidNeoDevice(d) == {Outcome(Valid(d), 0, slot, life)}

icsneo_isOpen(d) ==
    IF ~Valid(d) THEN InvalidOutcome(0)
    ELSE {Outcome(life[d] \in {"open", "online"}, 0, slot, life)}

icsneo_isOnline(d) ==
    IF ~Valid(d) THEN InvalidOutcome(0)
    ELSE {Outcome(life[d] = "online", 0, slot, life)}

icsneo_openDevice(d) ==
    IF ~Valid(d) THEN InvalidOutcome(0)
    ELSE IF life[d] = "found"
    THEN {Outcome(TRUE, 0, slot, [life EXCEPT ![d] = "open"])}
         \cup FailOutcomes("Failure")
    ELSE {Outcome(FALSE, 0, Event("Failure"), life)}

icsneo_closeDevice(d) ==
    IF ~Valid(d) THEN InvalidOutcome(0)
    ELSE IF life[d] \in {"open", "online"}
    THEN {Outcome(TRUE, 0, slot, [life EXCEPT ![d] = "none"])}
         \cup FailOutcomes("Failure")
    ELSE {Outcome(FALSE, 0, Event("Failure"), life)}

icsneo_goOnline(d) ==
    IF ~Valid(d) THEN InvalidOutcome(0)
    ELSE IF life[d] \in {"open", "online"}
    THEN {Outcome(TRUE, 0, slot, [life EXCEPT ![d] = "online"])}
         \cup FailOutcomes("Failure")
    ELSE {Outcome(FALSE, 0, Event("Failure"), life)}

icsneo_goOffline(d) ==
    IF ~Valid(d) THEN InvalidOutcome(0)
    ELSE IF life[d] \in {"open", "online"}
    THEN {Outcome(TRUE, 0, slot, [life EXCEPT ![d] = "open"])}
         \cup FailOutcomes("Failure")
    ELSE {Outcome(FALSE, 0, Event("Failure"), life)}

\* transmit, transmitMessages, setPollingMessageLimit, setDigitalIO,
\* getTimestampResolution, getDigitalIO: succeed or fail on a valid handle.
icsneo_deviceOperation(d) ==
    IF ~Valid(d) THEN InvalidOutcome(0)
    ELSE {Outcome(TRUE, 1, slot, life)} \cup FailOutcomes("Failure")

\* The native call behind a check-template wrapper.
NativeChecked(fn, d) ==
    CASE fn = "open_device" -> icsneo_openDevice(d)
      [] fn = "close_device" -> icsneo_closeDevice(d)
      [] fn = "go_online" -> icsneo_goOnline(d)
      [] fn = "go_offline" -> icsneo_goOffline(d)
      [] OTHER -> icsneo_deviceOperation(d)

\* ---------------------------------------------------- wrapper invocation
\* "T" / "F": how a native status is entered in frame.log.
Mark(ok) == IF ok THEN "T" ELSE "F"

Calls(log) == Cardinality({i \in 1..Len(log) : log[i] # "R"})

Reads(log) == Cardinality({i \in 1..Len(log) : log[i] = "R"})

\* The caller starts wrapper fn of its wrapper module on handle d: a handle
\* it received from find_all_devices, or the default one.
Invoke(file, fn, d) ==
    /\ frame.pc = "idle"
    /\ file = api
    /\ fn \in Wrappers
    /\ fn \in NoDeviceWrappers => d = DefaultDevice
    /\ d \in held \cup {DefaultDevice}
    /\ \E str \in (IF fn = "serial_string_to_num" THEN SerialStrings
                                                   ELSE {<<>>}) :
          frame' = [IdleFrame EXCEPT !.file = file, !.fn = fn, !.dev = d,
                                     !.str = str, !.pc = "call1"]
    /\ slot' = MarkStale(slot)
    /\ UNCHANGED <<fixed, life, held>>

\* The wrapper returns to its caller.
Return ==
    /\ frame.pc = "done"
    /\ frame' = IdleFrame
    /\ first' = FALSE
    /\ UNCHANGED <<outside, slot, life, held>>

\* A panic of the wrapper is caught above it (the Python binding raises it
\* as an exception, the test harness records a failed test): the process
\* goes on, and no wrapper has returned.
Unwind ==
    /\ frame.pc = "panicked"
    /\ frame' = IdleFrame
    /\ UNCHANGED <<fixed, slot, life, held>>

\* ------------------------------------------- call, check, map last-error
\* The two arms of the match exchanged.
open_device_mapped_swapped(e) ==
    IF e = NoEvent THEN ErrorOccurred(e) ELSE CriticalError
\* match get_last_error() { Some(e) => ErrorOccurred(e), None => CriticalError }
open_device_mapped(e) ==
    IF e # NoEvent THEN ErrorOccurred(e) ELSE CriticalError

\* src/lib.rs: Some(e) => Err(ErrorOccurred(e)), None => fall through to
\* Ok(success) (Ok(true) in set_polling_message_limit); the wrappers of
\* LibDiscarding: let _result = get_last_error(); return Err(CriticalError).
lib_open_device_mapped(fn, e, success) ==
    IF fn \in LibDiscarding THEN CriticalError
    ELSE IF e # NoEvent THEN ErrorOccurred(e)
    ELSE IF fn = "set_polling_message_limit" THEN Ok(TRUE, 0)
    ELSE Ok(success, 0)

checked_result(file, fn, e, success) ==
    IF file = "lib" THEN lib_open_device_mapped(fn, e, success)
    ELSE open_device_mapped(e)

\* The slot read after a call that succeeded, too.
open_device_checked_always_reads(file, fn, success, n) == Step("read1", NoRet)
\* if !success { match get_last_error() ... } Ok(..): Ok(()) or Ok(value) in
\* icsneo.rs and safe.rs; src/lib.rs returns Ok(success) where the others
\* return Ok(()).
open_device_checked(file, fn, success, n) ==
    IF ~success THEN Step("read1", NoRet)
    ELSE IF file = "lib" /\ fn \notin LibDiscarding THEN Step("done", Ok(TRUE, n))
    ELSE Step("done", Ok(FALSE, n))

CheckCall ==
    /\ frame.pc = "call1"
    /\ frame.fn \in CheckWrappers
    /\ \E o \in NativeChecked(frame.fn, frame.dev) :
          /\ slot' = o.slot
          /\ life' = o.life
          /\ UNCHANGED <<fixed, held>>
          /\ frame' = [frame EXCEPT
                         !.ok = o.ok,
                         !.after = o.slot,
                         !.log = Append(@, Mark(o.ok)),
                         !.resp = Append(@, CallResponse(o.ok, o.n, {}, TRUE)),
                         !.pc = open_device_checked(frame.file, frame.fn,
                                                    o.ok, o.n).pc,
                         !.ret = open_device_checked(frame.file, frame.fn,
                                                     o.ok, o.n).ret]

CheckRead ==
    /\ frame.pc = "read1"
    /\ frame.fn \in CheckWrappers
    /\ slot' = icsneo_getLastError.slot
    /\ frame' = [frame EXCEPT
                   !.log = Append(@, "R"),
                   !.resp = Append(@, ReadResponse(icsneo_getLastError.ev)),
                   !.pc = "done",
                   !.ret = checked_result(frame.file, frame.fn,
                                          icsneo_getLastError.ev, frame.ok)]
    /\ UNCHANGED <<fixed, life, held>>

\* ----------------------------------------------------- is_open, is_online
\* src/lib.rs with the block it has commented out put back.
is_open_checked_lib_reads(file, fn, success) ==
    IF ~success THEN Step("read1", NoRet) ELSE Step("done", Ok(success, 0))
\* icsneo.rs, safe.rs: if !success { match get_last_error() ... } Ok(success)
\* is_open of lib.rs: the check is commented out, Ok(success) at once.
is_open_checked(file, fn, success) ==
    IF file = "lib" /\ fn = "is_open" THEN Step("done", Ok(success, 0))
    ELSE IF ~success THEN Step("read1", NoRet)
    ELSE Step("done", Ok(success, 0))

\* The read skipped as in lib.rs: Ok(success) whatever the slot holds.
is_open_mapped_unread(file, fn, e, success) == Ok(success, 0)
\* icsneo.rs: Some(e) => ErrorOccurred(e), None => fall through to Ok(success)
\* safe.rs is_open: None => CriticalError
is_open_mapped(file, fn, e, success) ==
    IF e # NoEvent THEN ErrorOccurred(e)
    ELSE IF file = "safe" /\ fn = "is_open" THEN CriticalError
    ELSE Ok(success, 0)

NativeQuery(fn, d) ==
    IF fn = "is_open" THEN icsneo_isOpen(d) ELSE icsneo_isOnline(d)

QueryCall ==
    /\ frame.pc = "call1"
    /\ frame.fn \in QueryWrappers
    /\ \E o \in NativeQuery(frame.fn, frame.dev) :
          /\ slot' = o.slot
          /\ life' = o.life
          /\ UNCHANGED <<fixed, held>>
          /\ frame' = [frame EXCEPT
                         !.ok = o.ok,
                         !.after = o.slot,
                         !.log = Append(@, Mark(o.ok)),
                         !.resp = Append(@, CallResponse(o.ok, o.n, {}, TRUE)),
                         !.pc = is_open_checked(frame.file, frame.fn, o.ok).pc,
                         !.ret = is_open_checked(frame.file, frame.fn, o.ok).ret]

QueryRead ==
    /\ frame.pc = "read1"
    /\ frame.fn \in QueryWrappers
    /\ slot' = icsneo_getLastError.slot
    /\ frame' = [frame EXCEPT
                   !.log = Append(@, "R"),
                   !.resp = Append(@, ReadResponse(icsneo_getLastError.ev)),
                   !.pc = "done",
                   !.ret = is_open_mapped(frame.file, frame.fn,
                                          icsneo_getLastError.ev, frame.ok)]
    /\ UNCHANGED <<fixed, life, held>>

\* ---------------------------------------------------- is_valid_neodevice
\* icsneo.rs reads the slot after the call whatever it returned;
\* safe.rs and lib.rs return the native answer.
is_valid_neodevice_checked(file, is_valid) ==
    IF file = "icsneo" THEN Step("read1", NoRet)
    ELSE Step("done", Plain(is_valid, 0))

\* match get_last_error() { Some(e) => Err(ErrorOccurred(e)), None => Ok(is_valid) }
is_valid_neodevice_mapped(e, is_valid) ==
    IF e # NoEvent THEN ErrorOccurred(e) ELSE Ok(is_valid, 0)

ValidCall ==
    /\ frame.pc = "call1"
    /\ frame.fn = "is_valid_neodevice"
    /\ \E o \in icsneo_isValidNeoDevice(frame.dev) :
          /\ slot' = o.slot
          /\ life' = o.life
          /\ UNCHANGED <<fixed, held>>
          /\ frame' = [frame EXCEPT
                         !.ok = o.ok,
                         !.after = o.slot,
                         !.log = Append(@, Mark(o.ok)),
                         !.resp = Append(@, CallResponse(o.ok, o.n, {}, TRUE)),
                         !.pc = is_valid_neodevice_checked(frame.file, o.ok).pc,
                         !.ret = is_valid_neodevice_checked(frame.file, o.ok).ret]

ValidRead ==
    /\ frame.pc = "read1"
    /\ frame.fn = "is_valid_neodevice"
    /\ slot' = icsneo_getLastError.slot
    /\ frame' = [frame EXCEPT
                   !.log = Append(@, "R"),
                   !.resp = Append(@, ReadResponse(icsneo_getLastError.ev)),
                   !.pc = "done",
                   !.ret = is_valid_neodevice_mapped(icsneo_getLastError.ev,
                                                     frame.ok)]
    /\ UNCHANGED <<fixed, life, held>>

\* -------------------------------------------------------- get_last_error
\* Some whatever the native call returned.
get_last_error_always_some(e) == Ret("Some", FALSE, 0, e, {})
\* if icsneo_getLastError(&mut neo_event.0) { Some(neo_event) } else { None }
get_last_error(e) ==
    IF e # NoEvent THEN Ret("Some", FALSE, 0, e, {})
    ELSE Ret("None", FALSE, 0, NoEvent, {})

GetLastError ==
    /\ frame.pc = "call1"
    /\ frame.fn = "get_last_error"
    /\ slot' = icsneo_getLastError.slot
    /\ frame' = [frame EXCEPT
                   !.after = slot,
                   !.log = Append(@, "R"),
                   !.resp = Append(@, ReadResponse(icsneo_getLastError.ev)),
                   !.pc = "done",
                   !.ret = get_last_error(icsneo_getLastError.ev)]
    /\ UNCHANGED <<fixed, life, held>>

\* ---------------------------------------------------------- pass-through
icsneo_freeUnconnectedDevices ==
    {Outcome(TRUE, 0, slot,
             [d \in Devices |-> IF life[d] = "found" THEN "none" ELSE life[d]])}

\* The value a pass-through native function returns when it fails.
FailureValue(fn) ==
    IF fn \in {"get_baudrate", "get_fd_baudrate"} THEN -1 ELSE 0

NativePass(fn, d) ==
    IF fn = "free_unconnected_devices" THEN icsneo_freeUnconnectedDevices
    ELSE IF fn \in GlobalPassWrappers THEN {Outcome(TRUE, 1, slot, life)}
    ELSE IF ~Valid(d) THEN InvalidOutcome(FailureValue(fn))
    ELSE IF fn \in VoidPass THEN {Outcome(TRUE, 0, slot, life)}
    ELSE {Outcome(TRUE, 1, slot, life),
          Outcome(FALSE, FailureValue(fn), Event("Failure"), life),
          Outcome(FALSE, FailureValue(fn), slot, life)}

PassMark(fn, ok) == IF fn \in BoolPass THEN Mark(ok) ELSE "V"

\* The boolean answer inverted, the number dropped.
enable_message_polling_altered(file, fn, ok, n) == Plain(~ok, 0)
\* unsafe { icsneo_enableMessagePolling(&device.0) }: the native result as it
\* is; free_unconnected_devices of icsneo.rs and safe.rs returns Ok(()), of
\* lib.rs nothing.
enable_message_polling(file, fn, ok, n) ==
    IF fn = "free_unconnected_devices" /\ file # "lib" THEN Ok(FALSE, 0)
    ELSE IF fn \in BoolPass THEN Plain(ok, 0)
    ELSE IF fn \in VoidPass THEN Plain(FALSE, 0)
    ELSE Plain(FALSE, n)

\* let serial = CString::new(serial_str).unwrap(): the position after it.
serial_string_to_num_converted(str) ==
    IF CString_new(str).ok THEN Step("call1", NoRet)
    ELSE Step("panicked", Panicked)

\* serial_string_to_num on a string with a NUL byte inside: unwrap() panics
\* before the native call.
SerialPanic ==
    /\ frame.pc = "call1"
    /\ frame.fn = "serial_string_to_num"
    /\ serial_string_to_num_converted(frame.str).pc = "panicked"
    /\ frame' = [frame EXCEPT
                   !.pc = serial_string_to_num_converted(frame.str).pc,
                   !.ret = serial_string_to_num_converted(frame.str).ret]
    /\ UNCHANGED <<fixed, slot, life, held>>

PassCall ==
    /\ frame.pc = "call1"
    /\ frame.fn \in PassWrappers
    /\ frame.fn = "serial_string_to_num"
       => serial_string_to_num_converted(frame.str).pc = "call1"
    /\ \E o \in NativePass(frame.fn, frame.dev) :
          /\ slot' = o.slot
          /\ life' = o.life
          /\ UNCHANGED <<fixed, held>>
          /\ frame' = [frame EXCEPT
                         !.ok = o.ok,
                         !.count = o.n,
                         !.after = o.slot,
                         !.log = Append(@, PassMark(frame.fn, o.ok)),
                         !.resp = Append(@, CallResponse(o.ok, o.n, {}, TRUE)),
                         !.pc = "done",
                         !.ret = enable_message_polling(frame.file, frame.fn,
                                                        o.ok, o.n)]

\* --------------------------------------------- get_polling_message_limit
icsneo_getPollingMessageLimit(d) ==
    IF ~Valid(d) THEN InvalidOutcome(-1)
    ELSE {Outcome(TRUE, n, slot, life) : n \in 0..MaxCount}

\* if count == -1 { return Err(Error::DeviceInvalid) }; Ok(count)
get_polling_message_limit(count) ==
    IF count = -1 THEN DeviceInvalid ELSE Ok(FALSE, count)

LimitCall ==
    /\ frame.pc = "call1"
    /\ frame.fn = "get_polling_message_limit"
    /\ \E o \in icsneo_getPollingMessageLimit(frame.dev) :
          /\ slot' = o.slot
          /\ life' = o.life
          /\ UNCHANGED <<fixed, held>>
          /\ frame' = [frame EXCEPT
                         !.count = o.n,
                         !.after = o.slot,
                         !.log = Append(@, "V"),
                         !.resp = Append(@, CallResponse(o.ok, o.n, {}, TRUE)),
                         !.pc = "done",
                         !.ret = get_polling_message_limit(o.n)]

\* ------------------------------------------------- two-phase: the buffers
\* The buffer argument of a native call: null, or an allocation of cap items.
NullBuffer == [null |-> TRUE, cap |-> 0]

Buffer(cap) == [null |-> FALSE, cap |-> cap]

\* The buffer every two-phase wrapper passes to its first call:
\* std::ptr::null_mut().
first_buffer == NullBuffer

\* The string buffer without the room for the terminator.
serial_num_to_string_buffer_exact(count) == count
\* count += 1; let mut buffer: Vec<i8> = vec![0; count as usize];
serial_num_to_string_buffer(count) == count + 1

\* Vec::with_capacity(count); for _ in 0..count { push(default) }
get_messages_buffer(count) == count

\* devices.resize(device_count, neodevice_t::default())
find_all_devices_buffer(count) == count

\* ------------------------------------------------ two-phase: the strings
DeviceStringWrappers == {"describe_device", "get_product_name"}

\* With a null buffer the native call reports the size it needs and fails.
icsneo_stringProbe(fn, d, buffer) ==
    IF fn \in DeviceStringWrappers /\ ~Valid(d) THEN InvalidOutcome(0)
    ELSE {Outcome(FALSE, needed, Event("BufferInsufficient"), life) :
             needed \in 1..MaxCount}

icsneo_stringFill(fn, d, buffer) ==
    IF fn \in DeviceStringWrappers /\ ~Valid(d) THEN InvalidOutcome(0)
    ELSE {IF buffer.cap >= needed
          THEN Outcome(TRUE, needed - 1, slot, life)
          ELSE Outcome(FALSE, needed, Event("BufferInsufficient"), life) :
             needed \in 1..MaxCount}
         \cup FailOutcomes("Failure")

\* if success { return Err(CriticalError("failed to query length")) }
serial_num_to_string_probed(success) ==
    IF success THEN Step("done", CriticalError) ELSE Step("call2", NoRet)

\* if !success { match get_last_error() ... }; CStr -> String, Ok(s) or
\* CriticalError when the bytes are not UTF-8.
serial_num_to_string_filled(success, utf8, len) ==
    IF ~success THEN Step("read2", NoRet)
    ELSE IF utf8 THEN Step("done", Ok(FALSE, len))
    ELSE Step("done", CriticalError)

StringProbe ==
    /\ frame.pc = "call1"
    /\ frame.fn \in StringWrappers
    /\ \E o \in icsneo_stringProbe(frame.fn, frame.dev, first_buffer) :
          /\ slot' = o.slot
          /\ life' = o.life
          /\ UNCHANGED <<fixed, held>>
          /\ frame' = [frame EXCEPT
                         !.ok = o.ok,
                         !.null1 = first_buffer.null,
                         !.count = o.n,
                         !.reported = o.n,
                         !.after = o.slot,
                         !.log = Append(@, Mark(o.ok)),
                         !.resp = Append(@, CallResponse(o.ok, o.n, {}, TRUE)),
                         !.pc = serial_num_to_string_probed(o.ok).pc,
                         !.ret = serial_num_to_string_probed(o.ok).ret]

StringFill ==
    /\ frame.pc = "call2"
    /\ frame.fn \in StringWrappers
    /\ LET cap == serial_num_to_string_buffer(frame.count) IN
       \E o \in icsneo_stringFill(frame.fn, frame.dev, Buffer(cap)),
          utf8 \in BOOLEAN :
          /\ slot' = o.slot
          /\ life' = o.life
          /\ UNCHANGED <<fixed, held>>
          /\ frame' = [frame EXCEPT
                         !.ok = o.ok,
                         !.cap = cap,
                         !.count = o.n,
                         !.after = o.slot,
                         !.log = Append(@, Mark(o.ok)),
                         !.resp = Append(@, CallResponse(o.ok, o.n, {}, utf8)),
                         !.pc = serial_num_to_string_filled(o.ok, utf8, o.n).pc,
                         !.ret = serial_num_to_string_filled(o.ok, utf8, o.n).ret]

StringRead ==
    /\ frame.pc = "read2"
    /\ frame.fn \in StringWrappers
    /\ slot' = icsneo_getLastError.slot
    /\ frame' = [frame EXCEPT
                   !.log = Append(@, "R"),
                   !.resp = Append(@, ReadResponse(icsneo_getLastError.ev)),
                   !.pc = "done",
                   !.ret = checked_result(frame.file, frame.fn,
                                          icsneo_getLastError.ev, frame.ok)]
    /\ UNCHANGED <<fixed, life, held>>

\* ------------------------------------------------ two-phase: the vectors
DeviceVecWrappers == {"get_messages", "get_device_events"}

\* The native call reports how many items there are and fills the buffer, if
\* there is one, with as many as fit.
icsneo_vecCall(fn, d, buffer) ==
    IF fn \in DeviceVecWrappers /\ ~Valid(d) THEN InvalidOutcome(0)
    ELSE {Outcome(TRUE, n, slot, life) : n \in 0..MaxCount}
         \cup FailOutcomes("Failure")

\* The fill call made whatever the probe call returned.
get_messages_probed_goes_on(success) == Step("call2", NoRet)
\* if !success { match get_last_error() ... } after the probe call
get_messages_probed(success) ==
    IF ~success THEN Step("read1", NoRet) ELSE Step("call2", NoRet)

\* if !success { match get_last_error() ... }; Ok(messages)
get_messages_filled(success, len) ==
    IF ~success THEN Step("read2", NoRet) ELSE Step("done", Ok(FALSE, len))

\* get_messages of src/lib.rs: match get_last_error() { Some(e) => return
\* Err(ErrorOccurred(e)), None => {} }: with the slot empty it goes on, to the
\* fill call after the probe call and to Ok(messages) after the fill call.
lib_get_messages_mapped(pc, e, len) ==
    IF e # NoEvent THEN Step("done", ErrorOccurred(e))
    ELSE IF pc = "read1" THEN Step("call2", NoRet)
    ELSE Step("done", Ok(FALSE, len))

get_messages_mapped(file, fn, pc, e, len) ==
    IF file = "lib" /\ fn = "get_messages"
    THEN lib_get_messages_mapped(pc, e, len)
    ELSE Step("done", checked_result(file, fn, e, FALSE))

VecProbe ==
    /\ frame.pc = "call1"
    /\ frame.fn \in VecWrappers
    /\ \E o \in icsneo_vecCall(frame.fn, frame.dev, first_buffer) :
          /\ slot' = o.slot
          /\ life' = o.life
          /\ UNCHANGED <<fixed, held>>
          /\ frame' = [frame EXCEPT
                         !.ok = o.ok,
                         !.null1 = first_buffer.null,
                         !.count = o.n,
                         !.reported = o.n,
                         !.after = o.slot,
                         !.log = Append(@, Mark(o.ok)),
                         !.resp = Append(@, CallResponse(o.ok, o.n, {}, TRUE)),
                         !.pc = get_messages_probed(o.ok).pc,
                         !.ret = get_messages_probed(o.ok).ret]

VecFill ==
    /\ frame.pc = "call2"
    /\ frame.fn \in VecWrappers
    /\ LET cap == get_messages_buffer(frame.count) IN
       \E o \in icsneo_vecCall(frame.fn, frame.dev, Buffer(cap)) :
          /\ slot' = o.slot
          /\ life' = o.life
          /\ UNCHANGED <<fixed, held>>
          /\ frame' = [frame EXCEPT
                         !.ok = o.ok,
                         !.cap = cap,
                         !.count = o.n,
                         !.after = o.slot,
                         !.log = Append(@, Mark(o.ok)),
                         !.resp = Append(@, CallResponse(o.ok, o.n, {}, TRUE)),
                         !.pc = get_messages_filled(o.ok, cap).pc,
                         !.ret = get_messages_filled(o.ok, cap).ret]

VecRead ==
    /\ frame.pc \in {"read1", "read2"}
    /\ frame.fn \in VecWrappers
    /\ slot' = icsneo_getLastError.slot
    /\ LET next == get_messages_mapped(frame.file, frame.fn, frame.pc,
                                       icsneo_getLastError.ev, frame.cap)
       IN frame' = [frame EXCEPT
                      !.log = Append(@, "R"),
                      !.resp = Append(@, ReadResponse(icsneo_getLastError.ev)),
                      !.pc = next.pc,
                      !.ret = next.ret]
    /\ UNCHANGED <<fixed, life, held>>

\* ------------------------------------------------------ find_all_devices
\* The k devices of S with the smallest numbers.
SmallestK(S, k) == {d \in S : Cardinality({e \in S : e < d}) < k}

FindOutcome(n, s, l, buf) ==
    [ok |-> TRUE, n |-> n, slot |-> s, life |-> l, buf |-> buf]

\* The enumeration: S is the set of devices attached at the moment of the
\* call.  The count is set to their number; with a buffer, as many handles as
\* fit are written to it and become valid ("found"), and the items of the
\* buffer that are not written stay the all-zero handle.
icsneo_findAllDevices(buffer) ==
    {LET written == IF buffer.null THEN {} ELSE SmallestK(S, buffer.cap)
         rest == IF buffer.cap > Cardinality(written)
                 THEN {DefaultDevice} ELSE {}
     IN FindOutcome(Cardinality(S), slot,
                    [d \in Devices |->
                        IF d \in written /\ life[d] = "none"
                        THEN "found" ELSE life[d]],
                    written \cup rest) : S \in SUBSET Devices}
    \cup {FindOutcome(0, Event("Failure"), life,
                      IF buffer.cap > 0 THEN {DefaultDevice} ELSE {})}

\* icsneo.rs goes on to the fill call whatever the count is.
find_all_devices_probed_icsneo(file, e, count) ==
    IF e # NoEvent THEN Step("done", ErrorOccurred(e))
    ELSE Step("call2", NoRet)
\* match get_last_error() { Some(e) => return Err(ErrorOccurred(e)), None => {} }
\* safe.rs, lib.rs: if device_count == 0 { return Err(NoDevicesFound) }
find_all_devices_probed(file, e, count) ==
    IF e # NoEvent THEN Step("done", ErrorOccurred(e))
    ELSE IF file # "icsneo" /\ count = 0 THEN Step("done", NoDevicesFound)
    ELSE Step("call2", NoRet)

\* safe.rs, lib.rs after the fill call: if device_count == 0 { return
\* Err(NoDevicesFound) }, before the slot is read; icsneo.rs reads the slot.
find_all_devices_filled(file, count) ==
    IF file # "icsneo" /\ count = 0 THEN Step("done", NoDevicesFound)
    ELSE Step("read2", NoRet)

\* match event { Some(e) => return Err(ErrorOccurred(e)), None => {} }; Ok(devices)
find_all_devices_mapped(e, len, devs) ==
    IF e # NoEvent THEN ErrorOccurred(e) ELSE OkDevices(len, devs)

FindProbe ==
    /\ frame.pc = "call1"
    /\ frame.fn = "find_all_devices"
    /\ \E o \in icsneo_findAllDevices(first_buffer) :
          /\ slot' = o.slot
          /\ life' = o.life
          /\ UNCHANGED <<fixed, held>>
          /\ frame' = [frame EXCEPT
                         !.null1 = first_buffer.null,
                         !.count = o.n,
                         !.reported = o.n,
                         !.after = o.slot,
                         !.log = Append(@, "V"),
                         !.resp = Append(@, CallResponse(o.ok, o.n, o.buf, TRUE)),
                         !.pc = "read1"]

FindRead1 ==
    /\ frame.pc = "read1"
    /\ frame.fn = "find_all_devices"
    /\ slot' = icsneo_getLastError.slot
    /\ LET next == find_all_devices_probed(frame.file, icsneo_getLastError.ev,
                                           frame.count)
       IN frame' = [frame EXCEPT
                      !.log = Append(@, "R"),
                      !.resp = Append(@, ReadResponse(icsneo_getLastError.ev)),
                      !.pc = next.pc,
                      !.ret = next.ret]
    /\ UNCHANGED <<fixed, life, held>>

FindFill ==
    /\ frame.pc = "call2"
    /\ frame.fn = "find_all_devices"
    /\ LET cap == find_all_devices_buffer(frame.count) IN
       \E o \in icsneo_findAllDevices(Buffer(cap)) :
          /\ slot' = o.slot
          /\ life' = o.life
          /\ UNCHANGED <<fixed, held>>
          /\ frame' = [frame EXCEPT
                         !.cap = cap,
                         !.count = o.n,
                         !.buf = o.buf,
                         !.after = o.slot,
                         !.log = Append(@, "V"),
                         !.resp = Append(@, CallResponse(o.ok, o.n, o.buf, TRUE)),
                         !.pc = find_all_devices_filled(frame.file, o.n).pc,
                         !.ret = find_all_devices_filled(frame.file, o.n).ret]

FindRead2 ==
    /\ frame.pc = "read2"
    /\ frame.fn = "find_all_devices"
    /\ slot' = icsneo_getLastError.slot
    /\ frame' = [frame EXCEPT
                   !.log = Append(@, "R"),
                   !.resp = Append(@, ReadResponse(icsneo_getLastError.ev)),
                   !.pc = "done",
                   !.ret = find_all_devices_mapped(icsneo_getLastError.ev,
                                                   frame.cap, frame.buf)]
    /\ held' = held \cup (find_all_devices_mapped(icsneo_getLastError.ev,
                                                  frame.cap, frame.buf).devs
                           \ {DefaultDevice})
    /\ UNCHANGED <<fixed, life>>

Next ==
    \/ \E file \in Files, fn \in Wrappers, d \in Handles :
          Invoke(file, fn, d)
    \/ CheckCall
    \/ CheckRead
    \/ QueryCall
    \/ QueryRead
    \/ ValidCall
    \/ ValidRead
    \/ GetLastError
    \/ PassCall
    \/ LimitCall
    \/ StringProbe
    \/ StringFill
    \/ StringRead
    \/ VecProbe
    \/ VecFill
    \/ VecRead
    \/ FindProbe
    \/ FindRead1
    \/ FindFill
    \/ FindRead2
    \/ SerialPanic
    \/ Unwind
    \/ Return

Spec == Init /\ [][Next]_vars

\* ------------------------------------------------------------ two threads
\* The wrappers the threads call.
ThreadWrappers ==
    {"open_device", "close_device", "is_valid_neodevice", "get_last_error"}

\* The main thread has enumerated the devices with find_all_devices and got
\* some of them; the slot is empty.  It hands the handles to two threads
\* (NeoDevice is Send).
InitThreads ==
    /\ api \in Files
    /\ slot = NoEvent
    /\ life \in [Devices -> {"none", "found"}]
    /\ held = {d \in Devices : life[d] = "found"}
    /\ frame = IdleFrame
    /\ first = FALSE
    /\ threads = [t \in Threads |-> IdleThread]
    /\ owner = "none"

\* What a thread's step leaves alone.
single == <<api, held, frame, first>>

ThreadInvoke(t, fn, d) ==
    /\ threads[t].pc = "idle"
    /\ fn \in ThreadWrappers
    /\ fn \in NoDeviceWrappers => d = DefaultDevice
    /\ d \in held \cup {DefaultDevice}
    /\ threads' = [threads EXCEPT
                     ![t] = [IdleThread EXCEPT !.fn = fn, !.dev = d,
                                               !.pc = "call1"]]
    /\ UNCHANGED <<single, slot, life, owner>>

\* The native call of thread t with outcome o.  An event in the slot is
\* marked as soon as the call that recorded it has returned, so that a call
\* that records an event is told from one that leaves the slot as it was.
ThreadCalled(t, o, next) ==
    /\ slot' = MarkStale(o.slot)
    /\ life' = o.life
    /\ owner' = IF o.slot # slot THEN t ELSE owner
    /\ threads' = [threads EXCEPT
                     ![t].ok = o.ok,
                     ![t].own = IF o.slot # slot THEN o.slot ELSE NoEvent,
                     ![t].pc = next.pc,
                     ![t].ret = next.ret]
    /\ UNCHANGED single

\* get_last_error() of thread t, which takes whatever the slot holds.
ThreadRead(t, ret) ==
    /\ slot' = icsneo_getLastError.slot
    /\ owner' = "none"
    /\ threads' = [threads EXCEPT
                     ![t].from = owner,
                     ![t].pc = "done",
                     ![t].ret = ret]
    /\ UNCHANGED <<single, life>>

ThreadCheckCall(t) ==
    /\ threads[t].pc = "call1"
    /\ threads[t].fn \in CheckWrappers
    /\ \E o \in NativeChecked(threads[t].fn, threads[t].dev) :
          ThreadCalled(t, o, open_device_checked(api, threads[t].fn, o.ok, o.n))

ThreadCheckRead(t) ==
    /\ threads[t].pc = "read1"
    /\ threads[t].fn \in CheckWrappers
    /\ ThreadRead(t, checked_result(api, threads[t].fn,
                                     icsneo_getLastError.ev, threads[t].ok))

ThreadValidCall(t) ==
    /\ threads[t].pc = "call1"
    /\ threads[t].fn = "is_valid_neodevice"
    /\ \E o \in icsneo_isValidNeoDevice(threads[t].dev) :
          ThreadCalled(t, o, is_valid_neodevice_checked(api, o.ok))

ThreadValidRead(t) ==
    /\ threads[t].pc = "read1"
    /\ threads[t].fn = "is_valid_neodevice"
    /\ ThreadRead(t, is_valid_neodevice_mapped(icsneo_getLastError.ev,
                                                threads[t].ok))

ThreadGetLastError(t) ==
    /\ threads[t].pc = "call1"
    /\ threads[t].fn = "get_last_error"
    /\ ThreadRead(t, get_last_error(icsneo_getLastError.ev))

ThreadReturn(t) ==
    /\ threads[t].pc = "done"
    /\ threads' = [threads EXCEPT ![t] = IdleThread]
    /\ UNCHANGED <<single, slot, life, owner>>

NextThreads ==
    \/ \E t \in Threads, fn \in ThreadWrappers, d \in Handles :
          ThreadInvoke(t, fn, d)
    \/ \E t \in Threads : ThreadCheckCall(t)
    \/ \E t \in Threads : ThreadCheckRead(t)
    \/ \E t \in Threads : ThreadValidCall(t)
    \/ \E t \in Threads : ThreadValidRead(t)
    \/ \E t \in Threads : ThreadGetLastError(t)
    \/ \E t \in Threads : ThreadReturn(t)

SpecThreads == InitThreads /\ [][NextThreads]_vars

\* A step of the running wrapper body, its return included.
Body ==
    \/ CheckCall \/ CheckRead \/ QueryCall \/ QueryRead \/ ValidCall
    \/ ValidRead \/ GetLastError \/ PassCall \/ LimitCall \/ StringProbe
    \/ StringFill \/ StringRead \/ VecProbe \/ VecFill \/ VecRead
    \/ FindProbe \/ FindRead1 \/ FindFill \/ FindRead2 \/ SerialPanic
    \/ Unwind \/ Return

\* ------------------------------------------------------------ the claims
Done(file, fn) == frame.pc = "done" /\ frame.file = file /\ frame.fn = fn

\* The log entry at position i is a native call directly followed by a read.
FollowedByRead(log, i) == i < Len(log) /\ log[i + 1] = "R"

\* Every read in the log comes directly after a native call.
ReadsFollowCalls(log) ==
    \A i \in 1..Len(log) : log[i] = "R" => i > 1 /\ log[i - 1] # "R"

\* C1: in icsneo.rs and safe.rs each call-check-map wrapper makes exactly one
\* native call and returns Ok iff that call returned true, Err(ErrorOccurred(e))
\* iff it returned false and the slot held event e, and Err(CriticalError) iff
\* it returned false and the slot was empty.
C1_CheckTemplate ==
    (frame.pc = "done" /\ frame.file \in {"icsneo", "safe"}
        /\ frame.fn \in CheckWrappers)
    => /\ Calls(frame.log) = 1
       /\ frame.ret.tag \in {"Ok", "ErrorOccurred", "CriticalError"}
       /\ frame.ret.tag = "Ok" <=> frame.ok
       /\ frame.ret.tag = "ErrorOccurred"
             <=> (~frame.ok /\ frame.after # NoEvent)
       /\ frame.ret.tag = "ErrorOccurred" => frame.ret.ev = frame.after
       /\ frame.ret.tag = "CriticalError"
             <=> (~frame.ok /\ frame.after = NoEvent)

\* transmit of safe.rs failed on a valid handle and reports the event the
\* failing call recorded.
C1_Witness ==
    /\ Done("safe", "transmit")
    /\ ~frame.ok
    /\ frame.ret = ErrorOccurred(Event("Failure"))
    /\ frame.log = <<"F", "R">>

\* C2 as stated: every wrapper reads the last-error slot directly after each
\* native call it makes, before any further native call and before it returns.
C2_ReadAfterEveryCall ==
    frame.fn # "get_last_error"
    => \A i \in 1..Len(frame.log) :
          frame.log[i] # "R"
          => /\ i < Len(frame.log) => frame.log[i + 1] = "R"
             /\ i = Len(frame.log) => frame.pc # "done"

\* C2 amended: a wrapper reads the slot only directly after a native call of
\* its own.  The call-check-map wrappers, is_open and is_online of icsneo.rs
\* and safe.rs and the vector wrappers read it exactly after a call that
\* returned false; the string wrappers never after the probe call and exactly
\* after a fill call that returned false; find_all_devices reads it after
\* every call, except that safe.rs and lib.rs return without a read when the
\* fill call reported no device; is_valid_neodevice of icsneo.rs reads it
\* after its call; the pass-through wrappers, get_polling_message_limit,
\* is_open of lib.rs and is_valid_neodevice of safe.rs and lib.rs never read.
C2_ReadsOnlyWhereChecked ==
    (frame.pc = "done" /\ frame.fn # "get_last_error")
    => LET log == frame.log
           calls == {i \in 1..Len(log) : log[i] # "R"}
       IN /\ ReadsFollowCalls(log)
          /\ (frame.fn \in CheckWrappers \cup VecWrappers
                \/ frame.fn = "is_online"
                \/ (frame.fn = "is_open" /\ frame.file # "lib"))
             => \A i \in calls : FollowedByRead(log, i) <=> log[i] = "F"
          /\ frame.fn \in StringWrappers
             => /\ ~FollowedByRead(log, 1)
                /\ \A i \in calls \ {1} :
                      FollowedByRead(log, i) <=> log[i] = "F"
          /\ frame.fn = "find_all_devices"
             => \A i \in calls :
                   FollowedByRead(log, i)
                   <=> ~(frame.file # "icsneo" /\ i > 1 /\ frame.count = 0)
          /\ (frame.fn = "is_valid_neodevice" /\ frame.file = "icsneo")
             => \A i \in calls : FollowedByRead(log, i)
          /\ (frame.fn \in PassWrappers \cup {"get_polling_message_limit"}
                \/ (frame.fn = "is_open" /\ frame.file = "lib")
                \/ (frame.fn = "is_valid_neodevice" /\ frame.file # "icsneo"))
             => Reads(log) = 0

\* describe_device: the probe call failed and was not followed by a read, the
\* fill call failed and was.
C2_Witness ==
    /\ Done("icsneo", "describe_device")
    /\ frame.log = <<"F", "F", "R">>

\* C3: find_all_devices of icsneo.rs returns Err(NoDevicesFound) when the
\* native enumeration reports no device and the last-error slot is empty.
C3_NoDevicesFound ==
    (Done("icsneo", "find_all_devices") /\ frame.reported = 0
        /\ frame.count = 0 /\ frame.ret.tag # "ErrorOccurred")
    => frame.ret = NoDevicesFound

\* C4: find_all_devices of safe.rs and lib.rs never returns Ok with an empty
\* Vec; a probe call reporting no device with the slot empty gives
\* Err(NoDevicesFound) without a second native call; a fill call reporting no
\* device gives Err(NoDevicesFound); with a device reported by both calls and
\* no event in the slot it returns Ok.
C4_NeverOkEmpty ==
    (frame.pc = "done" /\ frame.file \in {"safe", "lib"}
        /\ frame.fn = "find_all_devices")
    => /\ frame.ret.tag = "Ok" => frame.ret.n > 0
       /\ (frame.reported = 0 /\ frame.ret.tag # "ErrorOccurred")
          => frame.ret = NoDevicesFound /\ Calls(frame.log) = 1
       /\ (Calls(frame.log) = 2 /\ frame.count = 0)
          => frame.ret = NoDevicesFound
       /\ (frame.reported > 0 /\ Calls(frame.log) = 2 /\ frame.count > 0
             /\ frame.ret.tag # "ErrorOccurred")
          => frame.ret.tag = "Ok"

\* safe.rs: the probe call reported a device, the fill call none.
C4_Witness ==
    /\ Done("safe", "find_all_devices")
    /\ frame.reported > 0
    /\ frame.log = <<"V", "R", "V">>
    /\ frame.count = 0
    /\ frame.ret = NoDevicesFound

\* C5 as stated: in every two-phase wrapper the first native call is made with
\* a null buffer and the buffer of the second call has exactly the size the
\* first call reported.
C5_BufferExactlyReported ==
    (frame.pc = "done" /\ frame.fn \in TwoPhaseWrappers)
    => /\ frame.null1
       /\ frame.cap # -1 => frame.cap = frame.reported

\* C5 amended: the first native call is made with a null buffer; the buffer
\* of the second call has exactly the reported size in find_all_devices and
\* the vector wrappers, and the reported size plus one (room for the
\* terminating NUL) in the string wrappers.
C5_BufferSize ==
    (frame.pc = "done" /\ frame.fn \in TwoPhaseWrappers)
    => /\ frame.null1
       /\ frame.cap # -1
          => frame.cap = IF frame.fn \in StringWrappers
                         THEN frame.reported + 1 ELSE frame.reported

\* describe_device succeeded with a buffer one larger than the probe reported.
C5_Witness ==
    /\ Done("icsneo", "describe_device")
    /\ frame.reported = MaxCount
    /\ frame.cap = MaxCount + 1
    /\ frame.ret.tag = "Ok"

\* C6: for a device returned by find_all_devices (icsneo.rs) and not opened,
\* is_open returns Ok(false); once open_device returned Ok(()) on it, is_open
\* returns Ok(true) until close_device is called.
C6_IsOpenTracksOpen ==
    (Done("icsneo", "is_open") /\ frame.dev \in held /\ Valid(frame.dev))
    => frame.ret = Ok(life[frame.dev] \in {"open", "online"}, 0)

\* C7: for an opened device (icsneo.rs) is_online returns Ok(false) until
\* go_online returned Ok(()), then Ok(true) until go_offline returned Ok(()),
\* and Ok(false) again after that.
C7_IsOnlineTracksOnline ==
    (Done("icsneo", "is_online") /\ frame.dev \in held
        /\ life[frame.dev] \in {"open", "online"})
    => frame.ret = Ok(life[frame.dev] = "online", 0)

\* C8: is_open of icsneo.rs and of safe.rs on the default (all-zero) device
\* returns Err, never Ok(false).
C8_IsOpenDefaultIsErr ==
    (frame.pc = "done" /\ frame.file \in {"icsneo", "safe"}
        /\ frame.fn = "is_open" /\ frame.dev = DefaultDevice)
    => frame.ret.tag \in {"ErrorOccurred", "CriticalError"}

\* icsneo.rs: is_open on the default device returns the InvalidNeoDevice
\* event its native call recorded.
C8_Witness ==
    /\ Done("icsneo", "is_open")
    /\ frame.dev = DefaultDevice
    /\ frame.ret = ErrorOccurred(Event("InvalidNeoDevice"))

\* C9: is_open of lib.rs returns Ok(b), b the native result, for every
\* device, Ok(false) for the default device; it never returns Err and never
\* reads the last-error slot.
C9_LibIsOpenPassesThrough ==
    Done("lib", "is_open")
    => /\ frame.ret = Ok(frame.ok, 0)
       /\ Reads(frame.log) = 0
       /\ slot = frame.after
       /\ frame.dev = DefaultDevice => frame.ret = Ok(FALSE, 0)

\* lib.rs: is_open on the default device returned Ok(false) and left the
\* event of its native call in the slot.
C9_Witness ==
    /\ Done("lib", "is_open")
    /\ frame.dev = DefaultDevice
    /\ frame.ret = Ok(FALSE, 0)
    /\ slot = Event("InvalidNeoDevice")

\* C10: every device returned by a successful find_all_devices (icsneo.rs) is
\* valid: is_valid_neodevice on it returns Ok(true) on every call made before
\* free_unconnected_devices or close_device releases it.
C10_FoundDevicesValid ==
    (Done("icsneo", "is_valid_neodevice") /\ frame.dev \in held
        /\ Valid(frame.dev))
    => frame.ret = Ok(TRUE, 0)

\* C11: a handle stops being valid when the native library releases it: after
\* free_unconnected_devices on a found, never opened device, and after
\* close_device on an opened one, is_valid_neodevice (icsneo.rs) on it returns
\* Ok, not Err, and reports the device as not valid.
C11_ReleasedIsInvalid ==
    (Done("icsneo", "is_valid_neodevice") /\ frame.dev \in held
        /\ life[frame.dev] = "none")
    => frame.ret = Ok(FALSE, 0)

\* C12: is_valid_neodevice on the default (all-zero) device reports "not
\* valid" without an error: safe.rs and lib.rs return false, icsneo.rs
\* returns Ok(_), not Err(ErrorOccurred).
C12_DefaultIsInvalidNoError ==
    (frame.pc = "done" /\ frame.fn = "is_valid_neodevice"
        /\ frame.dev = DefaultDevice)
    => IF frame.file = "icsneo" THEN frame.ret.tag = "Ok"
       ELSE frame.ret = Plain(FALSE, 0)

\* C13: get_last_error returns Some(e) exactly when the last-error slot holds
\* an event e and None exactly when the slot is empty; as the first wrapper
\* call of the process it returns None.
C13_GetLastError ==
    (frame.pc = "done" /\ frame.fn = "get_last_error")
    => /\ frame.after # NoEvent
          => frame.ret = Ret("Some", FALSE, 0, frame.after, {})
       /\ frame.after = NoEvent
          => frame.ret = Ret("None", FALSE, 0, NoEvent, {})
       /\ first => frame.ret.tag = "None"

\* get_last_error returned the InvalidNeoDevice event an earlier wrapper call
\* left in the slot, and emptied the slot.
C13_Witness ==
    /\ frame.pc = "done"
    /\ frame.fn = "get_last_error"
    /\ ~first
    /\ frame.after.code = "InvalidNeoDevice"
    /\ frame.ret.tag = "Some"
    /\ slot = NoEvent

\* Positions of the native operation calls in a log.
CallsAt(log) == {i \in 1..Len(log) : log[i] # "R"}

Unchanged(fn, ok, n) ==
    IF fn \in BoolPass THEN Plain(ok, 0)
    ELSE IF fn \in VoidPass THEN Plain(FALSE, 0)
    ELSE Plain(FALSE, n)

\* The pass-through wrappers the claim lists.
ListedPassWrappers == PassWrappers \ {"serial_string_to_num"}

\* C15 as stated: each pass-through wrapper calls one native function once,
\* returns its result unchanged (free_unconnected_devices always Ok(())) and
\* leaves the last-error slot as the native call left it.
C15_PassThrough ==
    (frame.pc = "done" /\ frame.fn \in ListedPassWrappers)
    => /\ Len(frame.log) = 1
       /\ Calls(frame.log) = 1
       /\ slot = frame.after
       /\ frame.ret = IF frame.fn = "free_unconnected_devices"
                      THEN Ok(FALSE, 0)
                      ELSE Unchanged(frame.fn, frame.ok, frame.count)

\* C15 amended: as stated, except that free_unconnected_devices returns
\* Ok(()) in icsneo.rs and safe.rs only; in lib.rs it returns nothing.
C15_PassThroughPerModule ==
    (frame.pc = "done" /\ frame.fn \in ListedPassWrappers)
    => /\ Len(frame.log) = 1
       /\ Calls(frame.log) = 1
       /\ slot = frame.after
       /\ frame.ret = IF frame.fn = "free_unconnected_devices"
                         /\ frame.file \in {"icsneo", "safe"}
                      THEN Ok(FALSE, 0)
                      ELSE Unchanged(frame.fn, frame.ok, frame.count)

\* get_baudrate on a found device failed: the wrapper returned the native
\* failure value and the event of the call is still in the slot.
C15_Witness ==
    /\ Done("icsneo", "get_baudrate")
    /\ frame.dev \in held
    /\ Valid(frame.dev)
    /\ frame.ret = Plain(FALSE, -1)
    /\ slot = Event("Failure")

\* C17: an Err(ErrorOccurred(e)) returned by a wrapper carries an event that
\* the native library recorded during that same invocation: find_all_devices
\* and is_valid_neodevice do not return an event that an earlier wrapper call
\* left in the last-error slot.
C17_ErrorIsOwn ==
    (frame.fn \in {"find_all_devices", "is_valid_neodevice"}
        /\ frame.ret.tag = "ErrorOccurred")
    => ~frame.ret.ev.stale

\* C18: with two threads calling wrappers and one process-global slot, a
\* wrapper whose native call failed and recorded an event returns that event,
\* and a wrapper returns Err(ErrorOccurred) only with an event its own call
\* recorded: no interleaving lets one thread's read take the event of the
\* other thread's call.
C18_ThreadsGetOwnError ==
    \A t \in Threads :
       threads[t].pc = "done"
       => /\ (threads[t].fn \in CheckWrappers /\ threads[t].own # NoEvent)
             => /\ threads[t].ret = ErrorOccurred(MarkStale(threads[t].own))
                /\ threads[t].from = t
          /\ threads[t].ret.tag = "ErrorOccurred" => threads[t].from = t

====
